---------------------------- MODULE Spec2Model ----------------------------
(***************************************************************************)
(* Offline queue and synchronisation of the "Kosuge Villager Point Card"   *)
(* PWA (src/app.js).  Strings are modelled as sequences of one-character   *)
(* strings so that trim(), length, the digit test, endsWith() and          *)
(* parseInt() are computed as the JavaScript computes them.                *)
(***************************************************************************)
EXTENDS Integers, Sequences, FiniteSets, TLC

(* ------------------------------ bounds --------------------------------- *)
MaxScans == 2
MaxSyncs == 2
MaxSaves == 1
MaxClock == 1
SyncSlots == 2
MaxRestarts == 2
MaxResets == 1
MaxFetches == 3

(* --------------------------- string helpers ---------------------------- *)
Digits == {"0", "1", "2", "3", "4", "5", "6", "7", "8", "9"}
WhiteSpace == {" ", "\t"}

RECURSIVE TrimStart(_)
TrimStart(s) ==
    IF s # <<>> /\ Head(s) \in WhiteSpace THEN TrimStart(Tail(s)) ELSE s

RECURSIVE TrimEnd(_)
TrimEnd(s) ==
    IF s # <<>> /\ s[Len(s)] \in WhiteSpace
    THEN TrimEnd(SubSeq(s, 1, Len(s) - 1))
    ELSE s

\* String.prototype.trim()
Trim(s) == TrimEnd(TrimStart(s))

\* String.prototype.endsWith(suffix)
EndsWith(s, suffix) ==
    /\ Len(s) >= Len(suffix)
    /\ SubSeq(s, Len(s) - Len(suffix) + 1, Len(s)) = suffix

ExecSuffix == <<"/", "e", "x", "e", "c">>

DigitVal(c) ==
    CASE c = "0" -> 0 [] c = "1" -> 1 [] c = "2" -> 2 [] c = "3" -> 3
      [] c = "4" -> 4 [] c = "5" -> 5 [] c = "6" -> 6 [] c = "7" -> 7
      [] c = "8" -> 8 [] c = "9" -> 9

\* the longest prefix of s made of decimal digits
RECURSIVE DigitPrefix(_)
DigitPrefix(s) ==
    IF s # <<>> /\ Head(s) \in Digits
    THEN <<Head(s)>> \o DigitPrefix(Tail(s))
    ELSE <<>>

RECURSIVE DigitsValue(_)
DigitsValue(ds) ==
    IF ds = <<>> THEN 0
    ELSE 10 * DigitsValue(SubSeq(ds, 1, Len(ds) - 1)) + DigitVal(ds[Len(ds)])

\* JavaScript values that are not strings: a number n, NaN, undefined
Num(n) == [kind |-> "num", n |-> n]
NaN == [kind |-> "NaN"]
Undefined == [kind |-> "undefined"]
Str(s) == [kind |-> "str", s |-> s]

\* parseInt(str, 10): leading white space, an optional sign, then the longest
\* run of digits; NaN when there is no digit
ParseInt(str) ==
    LET t == TrimStart(str)
        neg == t # <<>> /\ Head(t) = "-"
        body == IF t # <<>> /\ Head(t) \in {"-", "+"} THEN Tail(t) ELSE t
        ds == DigitPrefix(body)
    IN  IF ds = <<>> THEN NaN
        ELSE Num(IF neg THEN 0 - DigitsValue(ds) ELSE DigitsValue(ds))

\* JavaScript truthiness of the values above (the operand of "!")
Truthy(v) ==
    CASE v.kind = "undefined" -> FALSE
      [] v.kind = "NaN" -> FALSE
      [] v.kind = "num" -> v.n # 0
      [] v.kind = "str" -> v.s # <<>>
      [] v.kind = "null" -> FALSE

(* ------------------------------ inputs --------------------------------- *)
IdA == <<"1", "2", "3", "4", "5", "6", "7", "8", "9", "0", "1", "2", "3", "4">>

\* what the scanner may type before Enter: a valid identifier, the same
\* with surrounding white space, 13 digits, 14 characters with a letter
ScanInputs ==
    { IdA,
      <<" ">> \o IdA \o <<" ">>,
      SubSeq(IdA, 1, 13),
      SubSeq(IdA, 1, 13) \o <<"a">> }

\* what the operator may type into the three settings fields
UrlExec == <<" ", "h", "/", "e", "x", "e", "c", " ">>
UrlDev == <<"h", "/", "d", "e", "v">>
StoreS1 == <<"S", "1">>

\* what the operator may have typed into the three settings fields (URL,
\* store, points) when pressing save: everything right, or everything right
\* but one field
SettingsInputs ==
    { << UrlExec, StoreS1, <<"5">> >>,
      << <<>>, StoreS1, <<"5">> >>,
      << UrlDev, StoreS1, <<"5">> >>,
      << UrlExec, <<>>, <<"5">> >>,
      << UrlExec, StoreS1, <<>> >>,
      << UrlExec, StoreS1, <<"0">> >>,
      << UrlExec, StoreS1, <<"-", "3">> >> }

(* ------------------------------- state --------------------------------- *)
VARIABLES
    settings,       \* let settings (app.js:30)
    lsSettings,     \* localStorage[SETTINGS_KEY]: <<>> or <<the settings>>
    lastSync,       \* localStorage[LAST_SYNC_KEY]: <<>> or <<milliseconds>>
    deviceId,       \* let deviceId (app.js:31)
    queue,          \* object store 'pointQueue', in ascending key order
    nextId,         \* the store's autoIncrement key generator
    pendingAdds,    \* scans whose handler is suspended in await addEntry(...)
    lastScan,       \* the scan handler that ran last: what was typed, and
                    \* what it wrote to currentStatusSpan ("Pending" while it
                    \* awaits addEntry, "Threw" when it ended by an exception)
    syncs,          \* the invocations of syncData(), one record per slot:
                    \* where it is, its locals entries, response and now,
                    \* the request it awaits (<<>> or <<the request>>),
                    \* the outcome it wrote to currentStatusSpan and what it
                    \* logged about the secondary request
    syncDisabled,   \* syncDataButton.disabled
    nRequests,      \* how many requests have been handed to fetch()
    clock,          \* the wall clock read by new Date()
    nScans, nSyncs, nSaves,
    lsDeviceId,     \* localStorage[DEVICE_ID_KEY]: <<>> or <<the identifier>>
    nUuids,         \* how many identifiers crypto.randomUUID() has returned
    lastReset,      \* how the latest confirm() of resetDevice was answered
    nRestarts, nResets,
    swState,        \* the service worker's lifecycle state
    cacheNames,     \* the names of the caches in CacheStorage
    cacheContent,   \* the request URLs stored in each cache
    toDelete,       \* activate: the names caches.delete() was called with
    lastResponse,   \* fetch: the URL asked last and where its answer came from
    nFetches

deviceVars == <<lsDeviceId, nUuids, lastReset, nRestarts, nResets>>

swVars == <<swState, cacheNames, cacheContent, toDelete, lastResponse,
            nFetches>>

appVars == <<settings, lsSettings, lastSync, deviceId, queue, nextId,
             pendingAdds, lastScan, syncs, syncDisabled, nRequests, clock,
             nScans, nSyncs, nSaves>>

vars == <<appVars, deviceVars, swVars>>

IdleSync == [pc |-> "idle", entries |-> <<>>, outcome |-> "None",
             response |-> "None", now |-> 0, request |-> <<>>,
             notify |-> "None"]

\* an invocation that has returned or thrown: its locals are gone
Ended(outcome) == [IdleSync EXCEPT !.pc = "done", !.outcome = outcome]

\* let settings = {}
NoSettings == [appsScriptUrl |-> Undefined, storeId |-> Undefined,
               pointValue |-> Undefined]

\* the values crypto.randomUUID() returns, in the order it returns them:
\* each call gives a value it has never given before
Uuids == <<"uuid-1", "uuid-2", "uuid-3", "uuid-4">>

(* --------------------- service worker (src/sw.js) ---------------------- *)
CACHE_NAME == "kosuge-point-v1"

urlsToCache == {"./", "index.html", "app.js", "manifest.json", "sw.js",
                "icons/icon-192x192.png", "icons/icon-512x512.png"}

\* const cacheWhitelist = [CACHE_NAME]
cacheWhitelist == {CACHE_NAME}

\* caches that earlier versions of the worker may have left in CacheStorage,
\* and what they hold
StaleCacheNames == {"kosuge-point-v0", "kosuge-point-beta"}
StaleContent == {"index.html", "old.js"}
AllCacheNames == cacheWhitelist \cup StaleCacheNames

\* the URLs the page may request: cached assets, an asset only an earlier
\* version had, and the remote endpoint
RequestUrls == {"index.html", "app.js", "manifest.json", "old.js",
                "https://h/exec"}

InitApp ==
    /\ settings = NoSettings
    /\ lsSettings = <<>>
    /\ lastSync = <<>>
    /\ deviceId = Uuids[1]
    /\ queue = <<>>
    /\ nextId = 1
    /\ pendingAdds = <<>>
    /\ lastScan = [raw |-> <<>>, result |-> "None", append |-> "None"]
    /\ syncs = [s \in 1..SyncSlots |-> IdleSync]
    /\ syncDisabled = FALSE
    /\ nRequests = 0
    /\ clock = 0
    /\ nScans = 0
    /\ nSyncs = 0
    /\ nSaves = 0
    /\ lsDeviceId = <<Uuids[1]>>
    /\ nUuids = 1
    /\ lastReset = "None"
    /\ nRestarts = 0
    /\ nResets = 0

\* the worker script has been parsed, no event has been dispatched to it yet
InitWorker(stale) ==
    /\ swState = "parsed"
    /\ cacheNames = stale
    /\ cacheContent = [c \in AllCacheNames |->
                          IF c \in stale THEN StaleContent ELSE {}]
    /\ toDelete = {}
    /\ lastResponse = [url |-> "None", from |-> "None"]
    /\ nFetches = 0

\* first installation: CacheStorage is empty
Init == InitApp /\ InitWorker({})

\* installation over earlier versions: any of their caches may exist
InitSW == InitApp /\ \E stale \in SUBSET StaleCacheNames : InitWorker(stale)

\* time passes
Tick ==
    /\ clock < MaxClock
    /\ clock' = clock + 1
    /\ UNCHANGED <<settings, lsSettings, lastSync, deviceId, queue, nextId,
                   pendingAdds, lastScan, syncs, syncDisabled, nRequests,
                   nScans, nSyncs, nSaves>>
    /\ UNCHANGED <<deviceVars, swVars>>

(* ------------------------------ settings ------------------------------- *)
\* the condition of the if in saveSettings (app.js:119), on the values just
\* assigned to settings
SettingsRefused(st) ==
    \/ ~Truthy(st.appsScriptUrl)
    \/ ~EndsWith(st.appsScriptUrl.s, ExecSuffix)
    \/ ~Truthy(st.storeId)
    \/ st.pointValue.kind = "NaN"
    \/ st.pointValue.n <= 0

\* saveSettings(): the three fields are assigned to the in-memory settings
\* first, validated afterwards, and persisted only when valid
SaveSettings(url, store, point) ==
    /\ nSaves < MaxSaves
    /\ nSaves' = nSaves + 1
    /\ LET st == [appsScriptUrl |-> Str(Trim(url)),
                  storeId |-> Str(Trim(store)),
                  pointValue |-> ParseInt(Trim(point))]
       IN  /\ settings' = st
           /\ lsSettings' = IF SettingsRefused(st) THEN lsSettings ELSE <<st>>
    /\ UNCHANGED <<lastSync, deviceId, queue, nextId, pendingAdds, lastScan,
                   syncs, syncDisabled, nRequests, clock,
                   nScans, nSyncs>>
    /\ UNCHANGED <<deviceVars, swVars>>

(* -------------------------------- scan --------------------------------- *)
\* the same check with the point value forgotten
ConfigMissing_NoPoint(st) ==
    \/ ~Truthy(st.appsScriptUrl)
    \/ ~Truthy(st.storeId)

\* the condition of the first if of the keypress handler (app.js:137)
ConfigMissing(st) ==
    \/ ~Truthy(st.appsScriptUrl)
    \/ ~Truthy(st.storeId)
    \/ ~Truthy(st.pointValue)

\* the same check without the digit test
IsValidMemberId_LengthOnly(m) == Len(m) = 14

\* memberId.length === 14 && /^\d+$/.test(memberId) (app.js:144)
IsValidMemberId(m) ==
    /\ Len(m) = 14
    /\ m # <<>>
    /\ \A i \in 1..Len(m) : m[i] \in Digits

\* the same record without the device identifier
NewEntry_NoDevice(memberId) ==
    [id |-> nextId, memberId |-> memberId, timestamp |-> clock,
     deviceId |-> ""]

\* the record addEntry() stores (app.js:63); the store assigns the key
NewEntry(memberId) ==
    [id |-> nextId, memberId |-> memberId, timestamp |-> clock,
     deviceId |-> deviceId]

\* Enter in the scan field: the handler up to its first await, or to its end
\* when it does not reach addEntry
ScanKeypress(raw) ==
    /\ nScans < MaxScans
    /\ nScans' = nScans + 1
    /\ LET memberId == Trim(raw)
       IN  IF ConfigMissing(settings)
           THEN /\ lastScan' = [raw |-> raw, result |-> "ConfigurationMissing",
                                append |-> "None"]
                /\ UNCHANGED pendingAdds
           ELSE IF IsValidMemberId(memberId)
           THEN /\ pendingAdds' =
                       Append(pendingAdds, [raw |-> raw, memberId |-> memberId])
                /\ lastScan' = [raw |-> raw, result |-> "Pending",
                                append |-> "None"]
           ELSE /\ lastScan' = [raw |-> raw, result |-> "Rejected",
                                append |-> "None"]
                /\ UNCHANGED pendingAdds
    /\ UNCHANGED <<settings, lsSettings, lastSync, deviceId, queue, nextId,
                   syncs, syncDisabled, nRequests, clock, nSyncs, nSaves>>
    /\ UNCHANGED <<deviceVars, swVars>>

\* addEntry() resolves: the record is in the store, the handler resumes and
\* reports the scan as added
AddEntryOk ==
    /\ pendingAdds # <<>>
    /\ queue' = Append(queue, NewEntry(Head(pendingAdds).memberId))
    /\ nextId' = nextId + 1
    /\ pendingAdds' = Tail(pendingAdds)
    /\ lastScan' = [raw |-> Head(pendingAdds).raw, result |-> "Accepted",
                    append |-> "ok"]
    /\ UNCHANGED <<settings, lsSettings, lastSync, deviceId, syncs,
                   syncDisabled, nRequests, clock, nScans, nSyncs, nSaves>>
    /\ UNCHANGED <<deviceVars, swVars>>

\* addEntry() rejects (openDB or store.add fails): await throws inside the
\* handler, which has no try/catch, so it ends there as an unhandled
\* rejection; nothing after line 145 runs
AddEntryFail ==
    /\ pendingAdds # <<>>
    /\ pendingAdds' = Tail(pendingAdds)
    /\ lastScan' = [raw |-> Head(pendingAdds).raw, result |-> "Threw",
                    append |-> "failed"]
    /\ UNCHANGED <<settings, lsSettings, lastSync, deviceId, queue, nextId,
                   syncs, syncDisabled, nRequests, clock,
                   nScans, nSyncs, nSaves>>
    /\ UNCHANGED <<deviceVars, swVars>>

(* -------------------------------- sync --------------------------------- *)
InFlight(s) ==
    syncs[s].pc \in {"reading", "awaitResponse", "clearing", "awaitNotify"}

\* the same with the items in the opposite order
BatchRequest_Reversed(entries) ==
    [kind |-> "batch",
     url |-> settings.appsScriptUrl,
     storeId |-> settings.storeId,
     pointValue |-> settings.pointValue,
     data |-> [i \in 1..Len(entries) |->
                  [memberId |-> entries[Len(entries) + 1 - i].memberId,
                   timestamp |-> entries[Len(entries) + 1 - i].timestamp]],
     deviceId |-> deviceId]

\* the payload of the batch request (app.js:196-201) and where it is sent
BatchRequest(entries) ==
    [kind |-> "batch",
     url |-> settings.appsScriptUrl,
     storeId |-> settings.storeId,
     pointValue |-> settings.pointValue,
     data |-> [i \in 1..Len(entries) |->
                  [memberId |-> entries[i].memberId,
                   timestamp |-> entries[i].timestamp]],
     deviceId |-> deviceId]

\* the secondary request (app.js:223-232)
NotifyRequest ==
    [kind |-> "updateLastSyncTime", url |-> settings.appsScriptUrl,
     deviceId |-> deviceId]

\* the same check never taken
NothingToSync_Never(entries) == FALSE

\* entries.length === 0 (app.js:188)
NothingToSync(entries) == Len(entries) = 0

\* the same check without the status of the body
IsConfirmed_OkOnly(ok, body) == ok

\* response.ok && result.status === 200 (app.js:213)
IsConfirmed(ok, body) == ok /\ body = "status200"

\* what the remote may answer: the HTTP status is 2xx or not, and the body
\* is JSON with status 200, JSON with another status, or not JSON
Bodies == {"status200", "statusOther", "malformed"}

\* the record a new invocation of syncData() gets: the first not in use
FreeSlots == {s \in 1..SyncSlots :
                 ~InFlight(s) /\ \A r \in 1..(s - 1) : InFlight(r)}

\* syncData() is called by a click on the sync button (app.js:13), and a
\* disabled button delivers no click
SyncTriggered == ~syncDisabled

\* the same without line 185: the button stays enabled
SyncStart_NoDisable(s) ==
    /\ SyncTriggered
    /\ s \in FreeSlots
    /\ nSyncs < MaxSyncs
    /\ nSyncs' = nSyncs + 1
    /\ syncs' = [syncs EXCEPT ![s] = [IdleSync EXCEPT !.pc = "reading"]]
    /\ UNCHANGED <<settings, lsSettings, lastSync, deviceId, queue, nextId,
                   pendingAdds, lastScan, syncDisabled, nRequests, clock,
                   nScans, nSaves>>
    /\ UNCHANGED <<deviceVars, swVars>>

\* syncData() up to its first await (app.js:183-186)
SyncStart(s) ==
    /\ SyncTriggered
    /\ s \in FreeSlots
    /\ nSyncs < MaxSyncs
    /\ nSyncs' = nSyncs + 1
    /\ syncDisabled' = TRUE
    /\ syncs' = [syncs EXCEPT ![s] = [IdleSync EXCEPT !.pc = "reading"]]
    /\ UNCHANGED <<settings, lsSettings, lastSync, deviceId, queue, nextId,
                   pendingAdds, lastScan, nRequests, clock, nScans, nSaves>>
    /\ UNCHANGED <<deviceVars, swVars>>

\* getAllEntries() resolves with the store's records: either nothing to sync,
\* or the batch is built and handed to fetch() (app.js:186-209)
SyncRead(s) ==
    /\ syncs[s].pc = "reading"
    /\ IF NothingToSync(queue)
       THEN /\ syncDisabled' = FALSE
            /\ syncs' = [syncs EXCEPT ![s] = Ended("NothingToSync")]
            /\ UNCHANGED nRequests
       ELSE /\ nRequests' = nRequests + 1
            /\ syncs' = [syncs EXCEPT ![s].pc = "awaitResponse",
                                      ![s].entries = queue,
                                      ![s].request = <<BatchRequest(queue)>>]
            /\ UNCHANGED syncDisabled
    /\ UNCHANGED <<settings, lsSettings, lastSync, deviceId, queue, nextId,
                   pendingAdds, lastScan, clock, nScans, nSyncs, nSaves>>
    /\ UNCHANGED <<deviceVars, swVars>>

\* getAllEntries() rejects: line 186 is outside the try, so syncData() ends
\* with the exception and neither line 191 nor the finally block runs
SyncReadFail(s) ==
    /\ syncs[s].pc = "reading"
    /\ syncs' = [syncs EXCEPT ![s] = Ended("Threw")]
    /\ UNCHANGED <<settings, lsSettings, lastSync, deviceId, queue, nextId,
                   pendingAdds, lastScan, syncDisabled, nRequests, clock,
                   nScans, nSyncs, nSaves>>
    /\ UNCHANGED <<deviceVars, swVars>>

\* fetch() rejects (no network): catch, then finally (app.js:242-249)
SyncFetchFail(s) ==
    /\ syncs[s].pc = "awaitResponse"
    /\ syncDisabled' = FALSE
    /\ syncs' = [syncs EXCEPT ![s] = Ended("TransportError")]
    /\ UNCHANGED <<settings, lsSettings, lastSync, deviceId, queue, nextId,
                   pendingAdds, lastScan, nRequests, clock, nScans, nSyncs,
                   nSaves>>
    /\ UNCHANGED <<deviceVars, swVars>>

\* the response arrives and its body is read (app.js:211-213, 238-249)
SyncResponse(s, ok, body) ==
    /\ syncs[s].pc = "awaitResponse"
    /\ IF body = "malformed"
       THEN \* response.json() rejects: catch, then finally
            /\ syncDisabled' = FALSE
            /\ syncs' = [syncs EXCEPT ![s] = Ended("TransportError")]
       ELSE IF IsConfirmed(ok, body)
       THEN \* clearEntries() is called and awaited
            /\ syncs' = [syncs EXCEPT ![s].pc = "clearing",
                                      ![s].response = <<ok, body>>,
                                      ![s].request = <<>>]
            /\ UNCHANGED syncDisabled
       ELSE \* the else branch, then finally
            /\ syncDisabled' = FALSE
            /\ syncs' = [syncs EXCEPT ![s] = Ended("RemoteRejected")]
    /\ UNCHANGED <<settings, lsSettings, lastSync, deviceId, queue, nextId,
                   pendingAdds, lastScan, nRequests, clock, nScans, nSyncs,
                   nSaves>>
    /\ UNCHANGED <<deviceVars, swVars>>

\* what store.clear() leaves of the store (app.js:87): nothing, whatever the
\* batch held
ClearedStore(store, entries) == <<>>

\* clearEntries() resolves: the marker is written, success is shown and the
\* secondary request is handed to fetch() and awaited (app.js:214-232)
SyncClear(s) ==
    /\ syncs[s].pc = "clearing"
    /\ queue' = ClearedStore(queue, syncs[s].entries)
    /\ lastSync' = <<clock>>
    /\ nRequests' = nRequests + 1
    /\ syncs' = [syncs EXCEPT ![s].pc = "awaitNotify",
                              ![s].outcome = "Success",
                              ![s].now = clock,
                              ![s].request = <<NotifyRequest>>]
    /\ UNCHANGED <<settings, lsSettings, deviceId, nextId, pendingAdds,
                   lastScan, syncDisabled, clock, nScans, nSyncs, nSaves>>
    /\ UNCHANGED <<deviceVars, swVars>>

\* the same with the marker written before the clear is awaited
SyncClearFail_MarkerFirst(s) ==
    /\ syncs[s].pc = "clearing"
    /\ syncDisabled' = FALSE
    /\ lastSync' = <<clock>>
    /\ syncs' = [syncs EXCEPT ![s] = Ended("TransportError")]
    /\ UNCHANGED <<settings, lsSettings, deviceId, queue, nextId,
                   pendingAdds, lastScan, nRequests, clock, nScans, nSyncs,
                   nSaves>>
    /\ UNCHANGED <<deviceVars, swVars>>

\* clearEntries() rejects: catch, then finally; the store is as it was
SyncClearFail(s) ==
    /\ syncs[s].pc = "clearing"
    /\ syncDisabled' = FALSE
    /\ syncs' = [syncs EXCEPT ![s] = Ended("TransportError")]
    /\ UNCHANGED <<settings, lsSettings, lastSync, deviceId, queue, nextId,
                   pendingAdds, lastScan, nRequests, clock, nScans, nSyncs,
                   nSaves>>
    /\ UNCHANGED <<deviceVars, swVars>>

\* the same without the inner try/catch: a rejection reaches the outer catch
NotifyOutcome_Propagates(ok, outcome) ==
    IF ok THEN outcome ELSE "TransportError"

\* what currentStatusSpan shows once the secondary fetch() has settled: the
\* inner catch (app.js:234-236) only logs
NotifyOutcome(ok, outcome) == outcome

\* the secondary fetch() settles, resolved (ok) or rejected: console.log or
\* console.warn, then finally runs and syncData() returns (app.js:233-249)
SyncNotifySettled(s, ok) ==
    /\ syncs[s].pc = "awaitNotify"
    /\ syncDisabled' = FALSE
    /\ syncs' = [syncs EXCEPT ![s] =
                    [Ended(NotifyOutcome(ok, syncs[s].outcome))
                        EXCEPT !.notify = IF ok THEN "logged" ELSE "warned"]]
    /\ UNCHANGED <<settings, lsSettings, lastSync, deviceId, queue, nextId,
                   pendingAdds, lastScan, nRequests, clock,
                   nScans, nSyncs, nSaves>>
    /\ UNCHANGED <<deviceVars, swVars>>

(* ------------------------- device identity ----------------------------- *)
\* JSON.parse(JSON.stringify(v)) of one settings value: a string and a finite
\* number come back as they were, NaN comes back as null
Null == [kind |-> "null"]
JsonRoundTrip(v) == IF v.kind = "NaN" THEN Null ELSE v

\* loadSettings: the settings in effect after reading localStorage
LoadSettings(saved) ==
    IF saved # <<>>
    THEN [k \in DOMAIN saved[1] |-> JsonRoundTrip(saved[1][k])]
    ELSE NoSettings

\* the page calls loadSettings when it starts
StartupSettings(saved) == LoadSettings(saved)

\* localStorage.getItem(DEVICE_ID_KEY) || crypto.randomUUID()
StartupDeviceId_AlwaysNew(saved) == Uuids[nUuids + 1]

StartupDeviceId(saved) ==
    IF saved # <<>> THEN saved[1] ELSE Uuids[nUuids + 1]

\* the page is closed and opened again: the script runs from its first line,
\* the invocations of the previous page are gone, localStorage and the
\* database are kept
Restart ==
    /\ nRestarts < MaxRestarts
    /\ nUuids < Len(Uuids)
    /\ nRestarts' = nRestarts + 1
    /\ deviceId' = StartupDeviceId(lsDeviceId)
    /\ nUuids' = IF deviceId' \in {Uuids[i] : i \in 1..nUuids}
                 THEN nUuids ELSE nUuids + 1
    /\ lsDeviceId' = <<deviceId'>>
    /\ settings' = StartupSettings(lsSettings)
    /\ pendingAdds' = <<>>
    /\ lastScan' = [raw |-> <<>>, result |-> "None", append |-> "None"]
    /\ syncs' = [s \in 1..SyncSlots |-> IdleSync]
    /\ syncDisabled' = FALSE
    /\ UNCHANGED <<lsSettings, lastSync, queue, nextId, nRequests, clock,
                   nScans, nSyncs, nSaves, lastReset, nResets>>
    /\ UNCHANGED swVars

\* indexedDB.deleteDatabase(DB_NAME): the records of the deleted database
QueueAfterDelete_Kept(q) == q

QueueAfterDelete(q) == <<>>

\* the end of resetDevice: the new identifier is stored and no settings stay
\* in effect
PersistedAfterReset(id) == <<id>>

SettingsAfterReset == NoSettings

\* resetDevice: confirm() answered with "confirmed" (OK) or not
ResetDevice(confirmed) ==
    /\ nUuids < Len(Uuids)
    /\ IF confirmed
       THEN /\ nResets < MaxResets
            /\ nResets' = nResets + 1
            /\ lastReset' = "Confirmed"
            /\ lsSettings' = <<>>
            /\ lastSync' = <<>>
            /\ queue' = QueueAfterDelete(queue)
            /\ nextId' = 1
            /\ deviceId' = Uuids[nUuids + 1]
            /\ nUuids' = nUuids + 1
            /\ lsDeviceId' = PersistedAfterReset(deviceId')
            /\ settings' = SettingsAfterReset
            /\ UNCHANGED <<pendingAdds, lastScan, syncs, syncDisabled,
                           nRequests, clock, nScans, nSyncs, nSaves,
                           nRestarts>>
       ELSE /\ lastReset' = "Declined"
            /\ UNCHANGED <<appVars, lsDeviceId, nUuids, nRestarts, nResets>>
    /\ UNCHANGED swVars

(* --------------------------- service worker ---------------------------- *)
\* install: caches.open(CACHE_NAME) creates the cache when it does not exist
InstallOpen ==
    /\ swState = "parsed"
    /\ swState' = "installing"
    /\ cacheNames' = cacheNames \cup {CACHE_NAME}
    /\ UNCHANGED <<cacheContent, toDelete, lastResponse, nFetches>>
    /\ UNCHANGED <<appVars, deviceVars>>

\* install: cache.addAll(urlsToCache) stores every URL or, when one of the
\* requests fails, none; the rejection makes the installation fail
InstallAddAll(ok) ==
    /\ swState = "installing"
    /\ IF ok
       THEN /\ swState' = "installed"
            /\ cacheContent' =
                  [cacheContent EXCEPT ![CACHE_NAME] = @ \cup urlsToCache]
       ELSE /\ swState' = "redundant"
            /\ UNCHANGED cacheContent
    /\ UNCHANGED <<cacheNames, toDelete, lastResponse, nFetches>>
    /\ UNCHANGED <<appVars, deviceVars>>

\* activate: if (cacheWhitelist.indexOf(cacheName) === -1)
IsStale_Always(cacheName) == TRUE

IsStale(cacheName) == cacheName \notin cacheWhitelist

\* activate: caches.keys() resolves and caches.delete is called for every
\* name that is not in the whitelist
ActivateKeys ==
    /\ swState = "installed"
    /\ swState' = "activating"
    /\ toDelete' = {cacheName \in cacheNames : IsStale(cacheName)}
    /\ UNCHANGED <<cacheNames, cacheContent, lastResponse, nFetches>>
    /\ UNCHANGED <<appVars, deviceVars>>

\* activate: one caches.delete(cacheName) settles
ActivateDelete(cacheName) ==
    /\ swState = "activating"
    /\ cacheName \in toDelete \cap cacheNames
    /\ cacheNames' = cacheNames \ {cacheName}
    /\ cacheContent' = [cacheContent EXCEPT ![cacheName] = {}]
    /\ UNCHANGED <<swState, toDelete, lastResponse, nFetches>>
    /\ UNCHANGED <<appVars, deviceVars>>

\* activate: Promise.all settles, the worker is active
ActivateDone ==
    /\ swState = "activating"
    /\ toDelete \cap cacheNames = {}
    /\ swState' = "activated"
    /\ UNCHANGED <<cacheNames, cacheContent, toDelete, lastResponse, nFetches>>
    /\ UNCHANGED <<appVars, deviceVars>>

\* caches.match(event.request): is there a copy in any cache
Cached(url) == \E c \in cacheNames : url \in cacheContent[c]

\* fetch: what the handler leaves in the cache named CACHE_NAME
CacheAfterFetch_Stores(content, url, hit) ==
    IF hit THEN content ELSE content \cup {url}

CacheAfterFetch(content, url, hit) == content

\* fetch: the cached copy if there is one, the network otherwise; the
\* network request succeeds or fails
Fetch(url, online) ==
    /\ swState = "activated"
    /\ nFetches < MaxFetches
    /\ nFetches' = nFetches + 1
    /\ lastResponse' =
          [url |-> url,
           from |-> IF Cached(url) THEN "cache"
                    ELSE IF online THEN "network" ELSE "networkError"]
    /\ cacheContent' =
          [cacheContent EXCEPT
              ![CACHE_NAME] = CacheAfterFetch(@, url, Cached(url))]
    /\ UNCHANGED <<swState, cacheNames, toDelete>>
    /\ UNCHANGED <<appVars, deviceVars>>

(* --------------------------- specification ----------------------------- *)
Next ==
    \/ Tick
    \/ \E in \in SettingsInputs : SaveSettings(in[1], in[2], in[3])
    \/ \E raw \in ScanInputs : ScanKeypress(raw)
    \/ AddEntryOk
    \/ AddEntryFail
    \/ \E s \in 1..SyncSlots : SyncStart(s)
    \/ \E s \in 1..SyncSlots : SyncRead(s)
    \/ \E s \in 1..SyncSlots : SyncReadFail(s)
    \/ \E s \in 1..SyncSlots : SyncFetchFail(s)
    \/ \E s \in 1..SyncSlots, ok \in BOOLEAN, body \in Bodies :
          SyncResponse(s, ok, body)
    \/ \E s \in 1..SyncSlots : SyncClear(s)
    \/ \E s \in 1..SyncSlots : SyncClearFail(s)
    \/ \E s \in 1..SyncSlots, ok \in BOOLEAN : SyncNotifySettled(s, ok)

Spec == Init /\ [][Next]_vars

\* the application with restarts and device resets
NextDevice ==
    \/ SaveSettings(UrlExec, StoreS1, <<"5">>)
    \/ ScanKeypress(IdA)
    \/ AddEntryOk
    \/ \E s \in 1..SyncSlots : SyncStart(s)
    \/ \E s \in 1..SyncSlots : SyncRead(s)
    \/ \E s \in 1..SyncSlots, ok \in BOOLEAN :
          SyncResponse(s, ok, "status200")
    \/ \E s \in 1..SyncSlots : SyncClear(s)
    \/ \E s \in 1..SyncSlots : SyncNotifySettled(s, TRUE)
    \/ Restart
    \/ \E confirmed \in BOOLEAN : ResetDevice(confirmed)

SpecDevice == Init /\ [][NextDevice]_vars

\* the service worker's life
NextSW ==
    \/ InstallOpen
    \/ \E ok \in BOOLEAN : InstallAddAll(ok)
    \/ ActivateKeys
    \/ \E cacheName \in AllCacheNames : ActivateDelete(cacheName)
    \/ ActivateDone
    \/ \E url \in RequestUrls, online \in BOOLEAN : Fetch(url, online)

SpecSW == InitSW /\ [][NextSW]_vars

(* ------------------------------ properties ----------------------------- *)
Slots == 1..SyncSlots

\* exactly 14 ASCII decimal digits
FourteenDigits(m) ==
    /\ Len(m) = 14
    /\ \A i \in 1..14 : m[i] \in {"0", "1", "2", "3", "4", "5", "6", "7", "8", "9"}

\* s is an initial segment of t
IsPrefix(s, t) == Len(s) <= Len(t) /\ SubSeq(t, 1, Len(s)) = s

\* the sync in slot s has read the queue and has not finished
AfterRead(s) == syncs[s].pc \in {"awaitResponse", "clearing", "awaitNotify"}

\* this step ends the sync in slot s
Finishes(s) == syncs[s].pc \notin {"idle", "done"} /\ syncs'[s].pc = "done"

\* this step is the keypress handler taking a scan
TakesScan == nScans' = nScans + 1

\* C1: while a sync is in flight after reading the queue, a record that is in
\* the queue and was not in what the sync read (a scan accepted meanwhile) is
\* still in the queue after every step, the sync's last one included.
C1_ScanDuringSyncKept ==
    [][\A s \in Slots : \A i \in 1..Len(queue) :
          (/\ AfterRead(s)
           /\ \A j \in 1..Len(syncs[s].entries) :
                 syncs[s].entries[j].id # queue[i].id)
          => \E k \in 1..Len(queue') : queue'[k] = queue[i]]_vars

\* C2: a sync that ends with anything but Success has changed nothing in the
\* queue: what it read is still there, in place and unchanged, when it ends;
\* and a step removes records only as the clear of a sync whose response was
\* HTTP success with body status 200.
C2_FailedSyncKeepsQueue ==
    /\ [][\A s \in Slots :
             (Finishes(s) /\ syncs'[s].outcome # "Success")
             => (queue' = queue /\ IsPrefix(syncs[s].entries, queue'))]_vars
    /\ [][(\E i \in 1..Len(queue) :
              \A k \in 1..Len(queue') : queue'[k] # queue[i])
          => \E s \in Slots :
                /\ syncs[s].pc = "clearing"
                /\ syncs[s].response = <<TRUE, "status200">>
                /\ syncs'[s].outcome = "Success"]_vars

C2_Witness ==
    \E s \in Slots :
        /\ syncs[s].pc = "done"
        /\ syncs[s].outcome \in {"RemoteRejected", "TransportError"}
        /\ queue # <<>>

\* C3: at most one sync is in flight at any time, and while one is in flight
\* the sync button is disabled.
C3_OneSyncInFlight ==
    /\ Cardinality({s \in Slots : syncs[s].pc \notin {"idle", "done"}}) <= 1
    /\ \A s \in Slots : syncs[s].pc \notin {"idle", "done"} => syncDisabled

C3_Witness ==
    \E s \in Slots :
        /\ syncs[s].pc = "awaitResponse"
        /\ nSyncs < MaxSyncs
        /\ queue # <<>>

\* C4: when a sync returns Success, the queue length is 0 and the Last-Sync
\* Marker is the time that sync read.
C4_SuccessLeavesQueueEmpty ==
    [][\A s \in Slots :
          (Finishes(s) /\ syncs'[s].outcome = "Success")
          => (Len(queue') = 0 /\ lastSync' = <<syncs[s].now>>)]_vars

\* C5: a sync whose read finds the queue empty ends there with NothingToSync,
\* hands no request to fetch(), and leaves the queue and the marker as they
\* were.
C5_EmptyQueueNothingToSync ==
    [][\A s \in Slots :
          (/\ syncs[s].pc = "reading"
           /\ syncs'[s].pc # "reading"
           /\ syncs'[s].outcome # "Threw"
           /\ Len(queue) = 0)
          => /\ syncs'[s].pc = "done"
             /\ syncs'[s].outcome = "NothingToSync"
             /\ syncs'[s].request = <<>>
             /\ nRequests' = nRequests
             /\ queue' = queue
             /\ lastSync' = lastSync]_vars

C5_Witness ==
    \E s \in Slots :
        /\ syncs[s].pc = "done"
        /\ syncs[s].outcome = "NothingToSync"
        /\ ~syncDisabled

\* C6: every record in the queue, and every record on its way into it, has a
\* memberId of exactly 14 digits; a scan whose trimmed input is anything else
\* is rejected at once and changes neither the queue nor what is on its way.
C6_OnlyValidMemberIds ==
    /\ [](/\ \A i \in 1..Len(queue) : FourteenDigits(queue[i].memberId)
          /\ \A i \in 1..Len(pendingAdds) :
                FourteenDigits(pendingAdds[i].memberId))
    /\ [][(TakesScan /\ ~FourteenDigits(Trim(lastScan'.raw)))
          => /\ lastScan'.result \in {"Rejected", "ConfigurationMissing"}
             /\ queue' = queue
             /\ pendingAdds' = pendingAdds]_vars

C6_Witness ==
    /\ lastScan.result = "Rejected"
    /\ ~FourteenDigits(Trim(lastScan.raw))
    /\ queue # <<>>

\* C7: the step in which a scan is reported Accepted adds exactly one record,
\* at the end of the queue, with the trimmed input as memberId and the current
\* device identifier; the records before it are untouched.
C7_AcceptedAppendsOne ==
    [][(lastScan'.result = "Accepted" /\ pendingAdds' # pendingAdds)
       => /\ FourteenDigits(Trim(lastScan'.raw))
          /\ Len(queue') = Len(queue) + 1
          /\ SubSeq(queue', 1, Len(queue)) = queue
          /\ queue'[Len(queue')].memberId = Trim(lastScan'.raw)
          /\ queue'[Len(queue')].deviceId = deviceId']_vars

C7_Witness ==
    /\ lastScan.result = "Accepted"
    /\ Len(queue) >= 2
    /\ queue[Len(queue)].memberId = Trim(lastScan.raw)

\* a setting that is not there: never set, or set to nothing
AbsentText(v) == v.kind = "undefined" \/ (v.kind = "str" /\ v.s = <<>>)
AbsentNumber(v) == v.kind \in {"undefined", "NaN"}
AnyAbsent(st) ==
    \/ AbsentText(st.appsScriptUrl)
    \/ AbsentText(st.storeId)
    \/ AbsentNumber(st.pointValue)

\* C8: a scan taken while the endpoint address, the store identifier or the
\* point value is absent ends at once with ConfigurationMissing, whatever was
\* scanned, and changes neither the queue nor what is on its way into it.
C8_ConfigurationMissing ==
    [][(TakesScan /\ AnyAbsent(settings))
       => /\ lastScan'.result = "ConfigurationMissing"
          /\ queue' = queue
          /\ nextId' = nextId
          /\ pendingAdds' = pendingAdds]_vars

C8_Witness ==
    /\ lastScan.result = "ConfigurationMissing"
    /\ FourteenDigits(Trim(lastScan.raw))
    /\ nSaves > 0
    /\ AbsentNumber(settings.pointValue)
    /\ ~AbsentText(settings.appsScriptUrl)
    /\ ~AbsentText(settings.storeId)

\* settings that are missing or invalid: the address does not end in "/exec",
\* the store identifier is empty, or the point value is no integer > 0
InvalidSettings(st) ==
    \/ AnyAbsent(st)
    \/ Len(st.appsScriptUrl.s) < 5
    \/ SubSeq(st.appsScriptUrl.s, Len(st.appsScriptUrl.s) - 4,
              Len(st.appsScriptUrl.s)) # <<"/", "e", "x", "e", "c">>
    \/ st.pointValue.n <= 0

\* C9: while the settings in effect are missing or invalid, a scan puts no
\* record into the queue or on its way into it, and no request is handed to
\* fetch().
C9_InvalidSettingsRefuse ==
    [][InvalidSettings(settings)
       => /\ nRequests' = nRequests
          /\ (TakesScan => (queue' = queue /\ pendingAdds' = pendingAdds))]_vars

\* C10: a scan whose append failed has ended as Rejected(StorageFault), and a
\* scan reported Accepted has had its append succeed.
C10_StorageFaultReported ==
    /\ (lastScan.append = "failed" => lastScan.result = "StorageFault")
    /\ (lastScan.result = "Accepted" => lastScan.append = "ok")

\* C11: the secondary request is handed to fetch() only by a sync whose
\* response was confirmed, in the step that leaves none of its records in the
\* queue; and when that request settles, resolved or rejected, the outcome is
\* still Success and the queue and the marker are as they were, the marker
\* being the time that sync wrote.
C11_NotificationChangesNothing ==
    /\ [][\A s \in Slots :
             (/\ syncs'[s].request # <<>>
              /\ syncs'[s].request # syncs[s].request
              /\ syncs'[s].request[1].kind = "updateLastSyncTime")
             => /\ syncs[s].pc = "clearing"
                /\ syncs[s].response = <<TRUE, "status200">>
                /\ \A i \in 1..Len(syncs[s].entries) :
                      \A k \in 1..Len(queue') :
                         queue'[k] # syncs[s].entries[i]]_vars
    /\ [][\A s \in Slots :
             (syncs[s].pc = "awaitNotify" /\ syncs'[s].pc # "awaitNotify")
             => /\ syncs'[s].pc = "done"
                /\ syncs'[s].outcome = "Success"
                /\ queue' = queue
                /\ lastSync' = lastSync
                /\ lastSync' = <<syncs[s].now>>]_vars

C11_Witness ==
    \E s \in Slots :
        /\ syncs[s].pc = "done"
        /\ syncs[s].outcome = "Success"
        /\ syncs[s].notify = "warned"
        /\ lastSync # <<>>

\* C16: the marker changes only in the step in which a sync whose response was
\* confirmed has its clear done, a step that leaves none of that sync's
\* records in the queue; no other step (scan, save, any other end of a sync)
\* changes it.
C16_MarkerOnlyOnConfirmedSync ==
    [][lastSync' # lastSync
       => \E s \in Slots :
             /\ syncs[s].pc = "clearing"
             /\ syncs[s].response = <<TRUE, "status200">>
             /\ syncs'[s].outcome = "Success"
             /\ lastSync' = <<clock>>
             /\ \A i \in 1..Len(syncs[s].entries) :
                   \A k \in 1..Len(queue') :
                      queue'[k] # syncs[s].entries[i]]_vars

C16_Witness ==
    /\ lastSync # <<>>
    /\ nSaves > 0
    /\ lastScan.result = "Accepted"
    /\ \E s \in Slots :
          /\ syncs[s].pc = "done"
          /\ syncs[s].outcome \in {"NothingToSync", "RemoteRejected",
                                   "TransportError", "Threw"}

\* C17: the step in which a sync has read a non-empty queue hands exactly one
\* request to fetch(): its data has one {memberId, timestamp} item per record
\* of the queue, in the queue's order, which is ascending key order, and it
\* carries the store identifier, point value and device identifier in effect.
C17_BatchIsTheQueue ==
    /\ [](\A i \in 1..Len(queue) : \A k \in 1..Len(queue) :
             i < k => queue[i].id < queue[k].id)
    /\ [][\A s \in Slots :
             (syncs[s].pc = "reading" /\ syncs'[s].pc = "awaitResponse")
             => /\ nRequests' = nRequests + 1
                /\ Len(syncs'[s].request) = 1
                /\ syncs'[s].request[1].kind = "batch"
                /\ Len(syncs'[s].request[1].data) = Len(queue)
                /\ Len(queue) >= 1
                /\ \A i \in 1..Len(queue) :
                      syncs'[s].request[1].data[i] =
                         [memberId |-> queue[i].memberId,
                          timestamp |-> queue[i].timestamp]
                /\ syncs'[s].request[1].storeId = settings.storeId
                /\ syncs'[s].request[1].pointValue = settings.pointValue
                /\ syncs'[s].request[1].deviceId = deviceId]_vars

C17_Witness ==
    \E s \in Slots :
        /\ syncs[s].pc = "awaitResponse"
        /\ Len(syncs[s].request[1].data) = 2
        /\ syncs[s].request[1].data[1].timestamp
              < syncs[s].request[1].data[2].timestamp

\* C18: once a sync has shown Success it has finished, whether or not the
\* secondary request has settled.
C18_SuccessDoesNotWaitForNotification ==
    \A s \in Slots : syncs[s].outcome = "Success" => syncs[s].pc = "done"

\* C19: whenever no sync is in flight, the sync button is enabled.
C19_GuardReleased ==
    (\A s \in Slots : syncs[s].pc \in {"idle", "done"}) => ~syncDisabled


\* C12: while no reset has been confirmed, the device identifier in memory
\* is the one first generated and is the one kept in localStorage, whatever
\* scans, syncs, settings saves and restarts have happened
C12_DeviceIdentityStable ==
    nResets = 0 =>
        /\ deviceId = Uuids[1]
        /\ lsDeviceId = <<deviceId>>
        /\ nUuids = 1

C12_Witness ==
    /\ nResets = 0
    /\ nRestarts = MaxRestarts
    /\ nSaves > 0
    /\ queue # <<>>
    /\ \E s \in Slots : syncs[s].pc = "done"
    /\ deviceId = Uuids[1]

\* C13: a confirmed reset leaves the queue empty and no settings in effect
\* or stored, and puts a new identifier, different from every earlier one,
\* in memory and in localStorage, where a restart reads it back; a restart
\* keeps the identifier; a reset that is not confirmed changes nothing
C13_ResetDiscardsAndRenews ==
    [][ /\ nResets' = nResets + 1 =>
            /\ queue' = <<>>
            /\ settings' = NoSettings
            /\ lsSettings' = <<>>
            /\ deviceId' \notin {Uuids[i] : i \in 1..nUuids}
            /\ deviceId' # deviceId
            /\ lsDeviceId' = <<deviceId'>>
        /\ nRestarts' = nRestarts + 1 =>
            /\ lsDeviceId # <<>>
            /\ deviceId' = lsDeviceId[1]
            /\ deviceId' = deviceId
            /\ lsDeviceId' = lsDeviceId
        /\ (lastReset' = "Declined" /\ lastReset # "Declined") =>
            UNCHANGED <<appVars, lsDeviceId, nUuids>> ]_vars

C13_Witness ==
    /\ lastReset = "Confirmed"
    /\ nRestarts > 0
    /\ nScans > 0
    /\ nSaves > 0
    /\ nSyncs = 0
    /\ pendingAdds = <<>>
    /\ queue = <<>>
    /\ settings = NoSettings
    /\ deviceId = Uuids[2]
    /\ lsDeviceId = <<Uuids[2]>>

\* the worker has installed its cache
Installed == swState \in {"installed", "activating", "activated"}

\* C14: once installed, the cache named CACHE_NAME holds exactly the
\* pre-fetched URLs, whatever is requested; a request is answered from the
\* cache exactly when some cache holds a copy, from the network otherwise,
\* and the answer is not stored
C14_CacheNeverGrows ==
    /\ [](Installed =>
            /\ CACHE_NAME \in cacheNames
            /\ cacheContent[CACHE_NAME] = urlsToCache)
    /\ [][nFetches' = nFetches + 1 =>
            /\ lastResponse'.from = "cache" <=>
                  (\E c \in cacheNames : lastResponse'.url \in cacheContent[c])
            /\ lastResponse'.from \in {"cache", "network", "networkError"}
            /\ UNCHANGED <<cacheNames, cacheContent>>]_vars

C14_Witness ==
    /\ swState = "activated"
    /\ nFetches = MaxFetches
    /\ lastResponse.from = "network"
    /\ lastResponse.url \notin urlsToCache
    /\ cacheContent[CACHE_NAME] = urlsToCache

\* C15: when the activation has completed, the only cache is the one named
\* CACHE_NAME, and it still holds the pre-fetched URLs
C15_OnlyCurrentCacheAfterActivation ==
    swState = "activated" =>
        /\ cacheNames = {CACHE_NAME}
        /\ cacheContent[CACHE_NAME] = urlsToCache

C15_Witness ==
    /\ swState = "activated"
    /\ toDelete = StaleCacheNames
    /\ cacheNames = {CACHE_NAME}

=============================================================================
